---- MODULE Spec2Model ----
(***************************************************************************)
(* OB/GYN Citation Validator (src/main.py): the two request handlers,      *)
(* validate_citation and get_citations, over the module-level APPROVED set *)
(* and CITATIONS dictionary.  Text is modelled as sequences of one-letter  *)
(* strings so that str.lower(), the "in" substring test and the f-strings  *)
(* are computed rather than assumed.                                       *)
(***************************************************************************)
EXTENDS Integers, Sequences, FiniteSets, TLC

(***************************************************************************)
(* Bounds of the model.                                                    *)
(***************************************************************************)
\* words of a fetched page body
MaxBodyWords == 3
\* words of a supplied topic string
MaxTopicWords == 2
\* validate_citation calls in one behaviour of the concurrent specification
MaxCalls == 3
\* request slots handled concurrently
NumReq == 2

(***************************************************************************)
(* Text.                                                                   *)
(***************************************************************************)
UpperLetters ==
    <<"A","B","C","D","E","F","G","H","I","J","K","L","M",
      "N","O","P","Q","R","S","T","U","V","W","X","Y","Z">>

LowerLetters ==
    <<"a","b","c","d","e","f","g","h","i","j","k","l","m",
      "n","o","p","q","r","s","t","u","v","w","x","y","z">>

Digits == <<"0","1","2","3","4","5","6","7","8","9">>

\* str.lower() on one character
LowerChar(c) ==
    IF \E i \in DOMAIN UpperLetters : UpperLetters[i] = c
      THEN LowerLetters[CHOOSE i \in DOMAIN UpperLetters : UpperLetters[i] = c]
      ELSE c

\* str.lower()
Lower(s) == [i \in DOMAIN s |-> LowerChar(s[i])]

\* Python's  sub in text  on strings
Contains(text, sub) ==
    \E i \in 0..(Len(text) - Len(sub)) :
        SubSeq(text, i + 1, i + Len(sub)) = sub

\* str(n) of a non-negative integer, as formatted by an f-string
RECURSIVE IntToStr(_)
IntToStr(n) ==
    IF n < 10 THEN <<Digits[n + 1]>>
              ELSE IntToStr(n \div 10) \o <<Digits[(n % 10) + 1]>>

\* concatenation of a sequence of strings
RECURSIVE Flatten(_)
Flatten(ws) == IF ws = <<>> THEN <<>> ELSE Head(ws) \o Flatten(Tail(ws))

\* all sequences over S of length at most n
SeqUpTo(S, n) == UNION {[1..k -> S] : k \in 0..n}

(***************************************************************************)
(* Module-level data.                                                      *)
(***************************************************************************)
APPROVED ==
    { "https://www.acog.org/clinical/clinical-guidance/clinical-practice-update",
      "https://www.smfm.org/clinical-guidance",
      "https://onlinelibrary.wiley.com/journal/29979684",
      "https://www.sgo.org/practice-management/statements-and-recommendations/",
      "https://www.asrm.org/practice-guidance/practice-committee-documents/",
      "https://www.ncbi.nlm.nih.gov/books/NBK430685/",
      "https://radiopaedia.org/",
      "https://perinatology.com/",
      "https://www.cdc.gov/reproductivehealth/index.html",
      "https://www.ncbi.nlm.nih.gov/pmc/",
      "https://www.exxcellence.org/list-of-monographs/",
      "https://www.obgproject.com/",
      "https://www.creogsovercoffee.com/" }

Key_pcos == <<"p","c","o","s">>
Key_endometriosis == <<"e","n","d","o","m","e","t","r","i","o","s","i","s">>
Key_preeclampsia == <<"p","r","e","e","c","l","a","m","p","s","i","a">>

\* the dictionary in insertion order: a sequence of (key, list of records)
CITATIONS ==
    << [key |-> Key_pcos,
        records |->
          << [title |-> "Polycystic Ovary Syndrome: Diagnosis and Management",
              authors |-> "ACOG Committee on Gynecologic Practice",
              source |-> "American College of Obstetricians and Gynecologists",
              year |-> 2024,
              url |-> "https://www.acog.org/clinical/clinical-guidance/clinical-practice-update",
              doi |-> "10.1097/AOG.0000000000005434",
              abstract |-> "Clinical practice update on diagnosis and management of PCOS including metabolic considerations."],
             [title |-> "PCOS Metabolic Management Guidelines",
              authors |-> "Society for Maternal-Fetal Medicine",
              source |-> "SMFM Clinical Guidance",
              year |-> 2023,
              url |-> "https://www.smfm.org/clinical-guidance",
              doi |-> "10.1016/j.ajog.2023.05.021",
              abstract |-> "Evidence-based guidelines for metabolic management of women with PCOS."],
             [title |-> "Fertility Treatment in PCOS Patients",
              authors |-> "American Society for Reproductive Medicine",
              source |-> "ASRM Practice Committee",
              year |-> 2023,
              url |-> "https://www.asrm.org/practice-guidance/practice-committee-documents/",
              doi |-> "10.1016/j.fertnstert.2023.03.018",
              abstract |-> "Comprehensive review of fertility treatment options for women with PCOS."] >>],
       [key |-> Key_endometriosis,
        records |->
          << [title |-> "Endometriosis: Diagnosis and Management",
              authors |-> "ACOG Committee on Gynecologic Practice",
              source |-> "American College of Obstetricians and Gynecologists",
              year |-> 2024,
              url |-> "https://www.acog.org/clinical/clinical-guidance/clinical-practice-update",
              doi |-> "10.1097/AOG.0000000000005567",
              abstract |-> "Updated guidelines for diagnosis and treatment of endometriosis."] >>],
       [key |-> Key_preeclampsia,
        records |->
          << [title |-> "Preeclampsia Prevention and Management",
              authors |-> "Society for Maternal-Fetal Medicine",
              source |-> "SMFM Clinical Guidance",
              year |-> 2024,
              url |-> "https://www.smfm.org/clinical-guidance",
              doi |-> "10.1016/j.ajog.2024.02.018",
              abstract |-> "Evidence-based approach to preeclampsia prevention and management."] >>] >>

(***************************************************************************)
(* The page fetcher's possible results (requests.get and Response).        *)
(***************************************************************************)
\* classes that  except Exception  catches
ExceptionClasses == {"ReadTimeout", "ConnectionError", "ContentDecodingError"}

ReadTimeout ==
    [cls |-> "ReadTimeout", text |-> "Read timed out. (read timeout=10)"]

ConnectionError ==
    [cls |-> "ConnectionError", text |-> "Connection refused"]

ContentDecodingError ==
    [cls |-> "ContentDecodingError", text |-> "Received response with content-encoding: gzip, but failed to decode it."]

StatusCodes == {200, 204, 404, 500}

\* how the remote server behaves for one request
Remotes == {"answers", "hangs", "unreachable"}

W_Page == <<"P","a","g","e"," ">>
W_Not == <<"N","o","t"," ">>
W_found == <<"f","o","u","n","d">>
W_HAS == <<"H","A","S"," ">>
W_moved == <<"m","o","v","e","d">>
W_ReDirect == <<"R","e","D","i","r","e","c","t">>
W_available == <<"a","v","a","i","l","a","b","l","e">>
W_Err == <<"E","r","r">>
W_or == <<"o","r">>
W_ok == <<"o","k"," ">>

BodyWords ==
    {W_Page, W_Not, W_found, W_HAS, W_moved, W_ReDirect, W_available,
     W_Err, W_or, W_ok}

\* page bodies of the sequential specification
Bodies == {Flatten(ws) : ws \in SeqUpTo(BodyWords, MaxBodyWords)}

\* the responses a server may give in the sequential specification
Pages == {[status |-> s, text |-> b] : s \in StatusCodes, b \in Bodies}

\* the responses a server may give in the concurrent specification
FewPages ==
    {[status |-> 200, text |-> W_ok],
     [status |-> 200, text |-> W_Err \o W_or],
     [status |-> 404, text |-> W_Err \o W_or]}

\* requests.get(url) without the timeout: a hanging server is waited on forever
OutcomesNoTimeout(m, P) ==
    CASE m = "hangs" -> {}
      [] m = "unreachable" -> {[kind |-> "raise", exc |-> ConnectionError]}
      [] OTHER ->
           {[kind |-> "response", status |-> p.status, text |-> p.text] : p \in P}
           \cup {[kind |-> "unreadable", status |-> p.status,
                  exc |-> ContentDecodingError] : p \in P}

\* what requests.get(url, timeout=10) followed by r.text can do, for the
\* server's behaviour m and the responses P it may give
Outcomes(m, P) ==
    CASE m = "hangs" -> {[kind |-> "raise", exc |-> ReadTimeout]}
      [] m = "unreachable" -> {[kind |-> "raise", exc |-> ConnectionError]}
      [] OTHER ->
           {[kind |-> "response", status |-> p.status, text |-> p.text] : p \in P}
           \cup {[kind |-> "unreadable", status |-> p.status,
                  exc |-> ContentDecodingError] : p \in P}

\* citation_url values supplied by callers
UrlInputs ==
    { "https://radiopaedia.org/",
      "https://www.smfm.org/clinical-guidance",
      "https://radiopaedia.org",
      "http://radiopaedia.org/",
      "HTTPS://RADIOPAEDIA.ORG/",
      "" }

FewUrls == {"https://radiopaedia.org/", "https://radiopaedia.org"}

(***************************************************************************)
(* State.                                                                  *)
(***************************************************************************)
VARIABLES
    approved,    \* the module-level set APPROVED
    citations,   \* the module-level dictionary CITATIONS
    pc,          \* per request: "idle", "fetching" (suspended in requests.get), "done"
    arg,         \* per request: the handler and its argument
    remote,      \* per request: the behaviour of the server being fetched
    outcome,     \* per request: what the fetch did
    ret,         \* per request: what the handler returned (or raised)
    calls,       \* citation_url of every validate_citation call, in order
    fetchLog     \* url of every requests.get invocation, in order

vars == <<approved, citations, pc, arg, remote, outcome, ret, calls, fetchLog>>

Req == 1..NumReq

NoArg == [op |-> "none"]
NoOutcome == [kind |-> "none"]
NoRet == [kind |-> "none"]

Init ==
    /\ approved = APPROVED
    /\ citations = CITATIONS
    /\ pc = [r \in Req |-> "idle"]
    /\ arg = [r \in Req |-> NoArg]
    /\ remote = [r \in Req |-> "none"]
    /\ outcome = [r \in Req |-> NoOutcome]
    /\ ret = [r \in Req |-> NoRet]
    /\ calls = <<>>
    /\ fetchLog = <<>>

(***************************************************************************)
(* validate_citation.                                                      *)
(***************************************************************************)
\* a rejection that forgets the audit flag
RejectionUnflagged(msg) ==
    [is_approved |-> FALSE,
     formatted_citation |-> <<"Source limitation for this claim">>,
     flag_for_audit |-> FALSE,
     message |-> msg]

Rejection(msg) ==
    [is_approved |-> FALSE,
     formatted_citation |-> <<"Source limitation for this claim">>,
     flag_for_audit |-> TRUE,
     message |-> msg]

Approval(url) ==
    [is_approved |-> TRUE,
     formatted_citation |-> <<"(", url, ")">>,
     flag_for_audit |-> FALSE,
     message |-> <<"Citation is approved and working">>]

Return(v) == [kind |-> "return", value |-> v]

\* bad_phrases with its last entry lost
bad_phrases_without_error ==
    << <<"p","a","g","e"," ","n","o","t"," ","f","o","u","n","d">>,
       <<"h","a","s"," ","m","o","v","e","d">>,
       <<"r","e","d","i","r","e","c","t">>,
       <<"n","o","t"," ","a","v","a","i","l","a","b","l","e">> >>

bad_phrases ==
    << <<"p","a","g","e"," ","n","o","t"," ","f","o","u","n","d">>,
       <<"h","a","s"," ","m","o","v","e","d">>,
       <<"r","e","d","i","r","e","c","t">>,
       <<"n","o","t"," ","a","v","a","i","l","a","b","l","e">>,
       <<"e","r","r","o","r">> >>

\* any(bp in page for bp in bad_phrases)
AnyBadPhrase(page) ==
    \E i \in DOMAIN bad_phrases : Contains(page, bad_phrases[i])

\* the try body with the content check placed before the status check
TryBodyHeuristicFirst(url, o) ==
    IF o.kind = "raise" THEN [kind |-> "raise", exc |-> o.exc]
    ELSE IF o.kind = "unreadable" THEN [kind |-> "raise", exc |-> o.exc]
    ELSE IF AnyBadPhrase(Lower(o.text))
      THEN Return(Rejection(<<"Page loads but is broken/moved">>))
    ELSE IF o.status # 200
      THEN Return(Rejection(<<"HTTP error code: ">> \o IntToStr(o.status)))
    ELSE [kind |-> "fallthrough"]

\* the body of the try statement, given what the fetch did
TryBody(url, o) ==
    IF o.kind = "raise" THEN [kind |-> "raise", exc |-> o.exc]
    ELSE IF o.status # 200
      THEN Return(Rejection(<<"HTTP error code: ">> \o IntToStr(o.status)))
    ELSE IF o.kind = "unreadable" THEN [kind |-> "raise", exc |-> o.exc]
    ELSE IF AnyBadPhrase(Lower(o.text))
      THEN Return(Rejection(<<"Page loads but is broken/moved">>))
    ELSE [kind |-> "fallthrough"]

\* except requests.Timeout as e
CatchesTimeoutOnly(e) == e.cls \in {"ReadTimeout"}

\* except Exception as e
Catches(e) == e.cls \in ExceptionClasses

\* the try statement and the final return
AfterFetch(url, o) ==
    LET b == TryBody(url, o) IN
    IF b.kind = "raise"
      THEN IF Catches(b.exc)
             THEN Return(Rejection(<<"Fetch error: ", b.exc.text>>))
             ELSE b
    ELSE IF b.kind = "return" THEN b
    ELSE Return(Approval(url))

\* validate_citation fetching before it consults the allow-list
ValidateCallFetchFirst(r, Urls) ==
    /\ pc[r] = "idle"
    /\ Len(calls) < MaxCalls
    /\ \E u \in Urls :
         /\ arg' = [arg EXCEPT ![r] = [op |-> "validate", citation_url |-> u]]
         /\ calls' = Append(calls, u)
         /\ \E m \in Remotes : remote' = [remote EXCEPT ![r] = m]
         /\ fetchLog' = Append(fetchLog, u)
         /\ pc' = [pc EXCEPT ![r] = "fetching"]
         /\ UNCHANGED ret
    /\ UNCHANGED <<approved, citations, outcome>>

\* validate_citation reusing the result of an earlier fetch of the same URL
ValidateCallCached(r, Urls) ==
    /\ pc[r] = "idle"
    /\ Len(calls) < MaxCalls
    /\ \E u \in Urls :
         /\ arg' = [arg EXCEPT ![r] = [op |-> "validate", citation_url |-> u]]
         /\ calls' = Append(calls, u)
         /\ \/ /\ u \notin approved
               /\ ret' = [ret EXCEPT ![r] = Return(Rejection(<<"URL not in approved list">>))]
               /\ pc' = [pc EXCEPT ![r] = "done"]
               /\ UNCHANGED <<remote, fetchLog>>
            \/ /\ u \in approved
               /\ \E m \in Remotes : remote' = [remote EXCEPT ![r] = m]
               /\ fetchLog' =
                     IF \E i \in DOMAIN fetchLog : fetchLog[i] = u
                       THEN fetchLog ELSE Append(fetchLog, u)
               /\ pc' = [pc EXCEPT ![r] = "fetching"]
               /\ UNCHANGED ret
    /\ UNCHANGED <<approved, citations, outcome>>

\* a request enters validate_citation: the allow-list check, then requests.get
ValidateCall(r, Urls) ==
    /\ pc[r] = "idle"
    /\ Len(calls) < MaxCalls
    /\ \E u \in Urls :
         /\ arg' = [arg EXCEPT ![r] = [op |-> "validate", citation_url |-> u]]
         /\ calls' = Append(calls, u)
         /\ \/ /\ u \notin approved
               /\ ret' = [ret EXCEPT ![r] = Return(Rejection(<<"URL not in approved list">>))]
               /\ pc' = [pc EXCEPT ![r] = "done"]
               /\ UNCHANGED <<remote, fetchLog>>
            \/ /\ u \in approved
               /\ \E m \in Remotes : remote' = [remote EXCEPT ![r] = m]
               /\ fetchLog' = Append(fetchLog, u)
               /\ pc' = [pc EXCEPT ![r] = "fetching"]
               /\ UNCHANGED ret
    /\ UNCHANGED <<approved, citations, outcome>>

\* requests.get returns or raises, and the handler runs to its return
ValidateResume(r, P) ==
    /\ pc[r] = "fetching"
    /\ \E o \in Outcomes(remote[r], P) :
         /\ outcome' = [outcome EXCEPT ![r] = o]
         /\ ret' = [ret EXCEPT ![r] = AfterFetch(arg[r].citation_url, o)]
    /\ pc' = [pc EXCEPT ![r] = "done"]
    /\ UNCHANGED <<approved, citations, arg, remote, calls, fetchLog>>

\* one validate_citation call on every supplied URL and every fetch result
Next ==
    \/ ValidateCall(1, UrlInputs)
    \/ ValidateResume(1, Pages)

Spec == Init /\ [][Next]_vars

(***************************************************************************)
(* get_citations.                                                          *)
(***************************************************************************)
\* list(CITATIONS.keys())
Keys(cit) == [i \in DOMAIN cit |-> cit[i].key]

\* key in CITATIONS
HasKey(cit, k) == \E i \in DOMAIN cit : cit[i].key = k

\* CITATIONS[key]
Lookup(cit, k) == cit[CHOOSE i \in DOMAIN cit : cit[i].key = k].records

\* the loop that extends all_citations by every topic's list in turn
RECURSIVE AllCitations(_)
AllCitations(cit) ==
    IF cit = <<>> THEN <<>>
                  ELSE Head(cit).records \o AllCitations(Tail(cit))

\* the optional query parameter: <<>> is None, <<s>> is the string s
NoTopic == <<>>

\* Python's truth value of the parameter: None and "" are false
Truthy(topic) == topic # NoTopic /\ topic[1] # <<>>

\* get_citations that looks the topic up as supplied and echoes it back
get_citations_case_sensitive(cit, appr, topic) ==
    IF Truthy(topic)
      THEN IF HasKey(cit, topic[1])
             THEN [topic |-> topic[1],
                   citations |-> Lookup(cit, topic[1]),
                   count |-> Len(Lookup(cit, topic[1])),
                   service |-> "OB/GYN Citation Microservice",
                   version |-> "1.0.0"]
             ELSE [topic |-> topic[1],
                   citations |-> <<>>,
                   count |-> 0,
                   message |-> <<"No citations found for topic '">> \o topic[1] \o <<"'">>,
                   available_topics |-> Keys(cit),
                   service |-> "OB/GYN Citation Microservice",
                   version |-> "1.0.0"]
      ELSE [citations |-> AllCitations(cit),
            count |-> Len(AllCitations(cit)),
            available_topics |-> Keys(cit),
            approved_sources |-> appr,
            service |-> "OB/GYN Citation Microservice",
            version |-> "1.0.0"]

\* the value get_citations returns
get_citations(cit, appr, topic) ==
    IF Truthy(topic)
      THEN LET topic_lower == Lower(topic[1]) IN
           IF HasKey(cit, topic_lower)
             THEN [topic |-> topic_lower,
                   citations |-> Lookup(cit, topic_lower),
                   count |-> Len(Lookup(cit, topic_lower)),
                   service |-> "OB/GYN Citation Microservice",
                   version |-> "1.0.0"]
             ELSE [topic |-> topic_lower,
                   citations |-> <<>>,
                   count |-> 0,
                   message |-> <<"No citations found for topic '">> \o topic_lower \o <<"'">>,
                   available_topics |-> Keys(cit),
                   service |-> "OB/GYN Citation Microservice",
                   version |-> "1.0.0"]
      ELSE [citations |-> AllCitations(cit),
            count |-> Len(AllCitations(cit)),
            available_topics |-> Keys(cit),
            approved_sources |-> appr,
            service |-> "OB/GYN Citation Microservice",
            version |-> "1.0.0"]

\* get_citations starting all_citations as the first topic's own list, so
\* that extending it grows the list stored in CITATIONS
GetCitationsAliasing(r, Topics) ==
    /\ pc[r] = "idle"
    /\ \E t \in Topics :
         /\ arg' = [arg EXCEPT ![r] = [op |-> "citations", topic |-> t]]
         /\ ret' = [ret EXCEPT ![r] = Return(get_citations(citations, approved, t))]
         /\ citations' =
               IF Truthy(t) THEN citations
               ELSE [citations EXCEPT ![1].records = AllCitations(citations)]
    /\ pc' = [pc EXCEPT ![r] = "done"]
    /\ UNCHANGED <<approved, remote, outcome, calls, fetchLog>>

\* a request runs get_citations, which never suspends
GetCitations(r, Topics) ==
    /\ pc[r] = "idle"
    /\ \E t \in Topics :
         /\ arg' = [arg EXCEPT ![r] = [op |-> "citations", topic |-> t]]
         /\ ret' = [ret EXCEPT ![r] = Return(get_citations(citations, approved, t))]
    /\ pc' = [pc EXCEPT ![r] = "done"]
    /\ UNCHANGED <<approved, citations, remote, outcome, calls, fetchLog>>

T_p == <<"p">>
T_P == <<"P">>
T_cos == <<"c","o","s">>
T_COS == <<"C","O","S">>
T_x == <<"x">>
T_X == <<"X">>

TopicWords == {T_p, T_P, T_cos, T_COS, T_x, T_X}

T_ENDOMETRIOSIS == <<"E","N","D","O","M","E","T","R","I","O","S","I","S">>
T_Preeclampsia == <<"P","r","e","e","c","l","a","m","p","s","i","a">>

\* topic parameters supplied by callers: absent, or a string ("" included)
TopicInputs ==
    {NoTopic}
    \cup {<<Flatten(ws)>> : ws \in SeqUpTo(TopicWords, MaxTopicWords)}
    \cup {<<Key_endometriosis>>, <<T_ENDOMETRIOSIS>>,
          <<Key_preeclampsia>>, <<T_Preeclampsia>>}

FewTopics == {NoTopic, <<<<>>>>, <<T_P \o T_COS>>, <<T_x>>}

\* the response has been sent: the request and its result are discarded
Respond(r) ==
    /\ pc[r] = "done"
    /\ pc' = [pc EXCEPT ![r] = "idle"]
    /\ arg' = [arg EXCEPT ![r] = NoArg]
    /\ remote' = [remote EXCEPT ![r] = "none"]
    /\ outcome' = [outcome EXCEPT ![r] = NoOutcome]
    /\ ret' = [ret EXCEPT ![r] = NoRet]
    /\ UNCHANGED <<approved, citations, calls, fetchLog>>

\* requests of both kinds handled concurrently, each validation suspended
\* at its fetch
NextConc ==
    \E r \in Req :
        \/ ValidateCall(r, FewUrls)
        \/ ValidateResume(r, FewPages)
        \/ GetCitations(r, FewTopics)
        \/ Respond(r)

SpecConc == Init /\ [][NextConc]_vars

\* validation requests handled concurrently and repeatedly
NextLive ==
    \E r \in Req :
        \/ ValidateCall(r, FewUrls)
        \/ ValidateResume(r, FewPages)
        \/ Respond(r)

\* requests.get is called with timeout=10: a pending fetch returns or raises
SpecLive ==
    /\ Init
    /\ [][NextLive]_vars
    /\ \A r \in Req : WF_vars(ValidateResume(r, FewPages))

\* two get_citations requests on every pair of supplied topics
NextBib ==
    \E r \in {1, 2} : GetCitations(r, TopicInputs)

SpecBib == Init /\ [][NextBib]_vars

(***************************************************************************)
(* Properties of validate_citation.                                        *)
(***************************************************************************)
\* requests whose validate_citation call has finished
Validated == {r \in Req : arg[r].op = "validate" /\ pc[r] = "done"}

Url(r) == arg[r].citation_url

Verdict(r) == ret[r].value

\* the five broken-page substrings, as the specification lists them
BrokenPageSubstrings ==
    { <<"p","a","g","e"," ","n","o","t"," ","f","o","u","n","d">>,
      <<"h","a","s"," ","m","o","v","e","d">>,
      <<"r","e","d","i","r","e","c","t">>,
      <<"n","o","t"," ","a","v","a","i","l","a","b","l","e">>,
      <<"e","r","r","o","r">> }

CleanBody(text) ==
    \A bp \in BrokenPageSubstrings : ~Contains(Lower(text), bp)

\* C1: a finished validation is approved if and only if its URL is in the
\* approved set, the fetch completed with status exactly 200, and the
\* lowercased body contains none of the five broken-page substrings.
C1_ApprovedIff ==
    \A r \in Validated :
        /\ ret[r].kind = "return"
        /\ Verdict(r).is_approved <=>
              /\ Url(r) \in APPROVED
              /\ outcome[r].kind = "response"
              /\ outcome[r].status = 200
              /\ CleanBody(outcome[r].text)

\* an approval of a page whose body is not empty and holds "Err" but not "error"
C1_Witness ==
    \E r \in Validated :
        /\ Verdict(r).is_approved
        /\ Contains(outcome[r].text, W_Err)
        /\ Verdict(r).formatted_citation = <<"(", Url(r), ")">>

\* C2: a URL that is not string-equal to a member of the approved set is
\* rejected with flag_for_audit set and the message "URL not in approved list",
\* and the fetcher is not invoked for it: the call never waits on a fetch, has
\* no fetch result, and no URL outside the approved set is ever fetched.
C2_PolicyRejectionNoFetch ==
    /\ \A r \in Req :
          (arg[r].op = "validate" /\ Url(r) \notin APPROVED) =>
              /\ pc[r] = "done"
              /\ outcome[r] = NoOutcome
              /\ ret[r].kind = "return"
              /\ Verdict(r).is_approved = FALSE
              /\ Verdict(r).flag_for_audit = TRUE
              /\ Verdict(r).message = <<"URL not in approved list">>
    /\ \A i \in DOMAIN fetchLog : fetchLog[i] \in APPROVED

\* a rejected near-miss of an approved URL (the trailing slash is missing)
C2_Witness ==
    \E r \in Validated :
        /\ Url(r) = "https://radiopaedia.org"
        /\ Verdict(r).message = <<"URL not in approved list">>
        /\ fetchLog = <<>>

\* C3: in every returned verdict flag_for_audit is the negation of is_approved.
C3_FlagIsNegation ==
    \A r \in Validated :
        ret[r].kind = "return" =>
            Verdict(r).flag_for_audit = ~Verdict(r).is_approved

\* a rejection by the content check: status 200 and a body holding "redirect"
C3_Witness ==
    \E r \in Validated :
        /\ outcome[r].kind = "response"
        /\ outcome[r].status = 200
        /\ Contains(outcome[r].text, W_ReDirect)
        /\ Verdict(r).flag_for_audit

\* whether the fetch, or reading the response, raised
FetchRaised(o) ==
    \/ o.kind = "raise"
    \/ o.kind = "unreadable" /\ o.status = 200

\* C4: validate_citation never raises; when the fetch or the reading of its
\* response raises, the call returns a rejection whose message is
\* "Fetch error: " followed by the text of the exception.
C4_NoExceptionEscapes ==
    \A r \in Validated :
        /\ ret[r].kind = "return"
        /\ FetchRaised(outcome[r]) =>
              /\ Verdict(r).is_approved = FALSE
              /\ Verdict(r).flag_for_audit = TRUE
              /\ Verdict(r).formatted_citation = <<"Source limitation for this claim">>
              /\ Verdict(r).message = <<"Fetch error: ", outcome[r].exc.text>>

\* a refused connection turned into a verdict
C4_Witness ==
    \E r \in Validated :
        /\ outcome[r].kind = "raise"
        /\ outcome[r].exc.cls = "ConnectionError"
        /\ Verdict(r).message = <<"Fetch error: ", "Connection refused">>

\* C5: the checks run in the order allow-list, transport, status, content and
\* the message is that of the first failing one: a status other than 200 gives
\* "HTTP error code: <status>" whatever the body holds, and
\* "Page loads but is broken/moved" is returned only for status 200.
C5_FirstFailingCheck ==
    \A r \in Validated :
        LET o == outcome[r]
            m == Verdict(r).message
        IN  /\ Url(r) \notin APPROVED => m = <<"URL not in approved list">>
            /\ o.kind = "raise" => m[1] = "Fetch error: "
            /\ (o.kind \in {"response", "unreadable"} /\ o.status # 200) =>
                   m = <<"HTTP error code: ">> \o IntToStr(o.status)
            /\ (o.kind = "response" /\ o.status = 404) =>
                   m = <<"HTTP error code: ", "4", "0", "4">>
            /\ m = <<"Page loads but is broken/moved">> =>
                   /\ Url(r) \in APPROVED
                   /\ o.kind = "response"
                   /\ o.status = 200
                   /\ ~CleanBody(o.text)

\* status 404 with a body holding "error": the status decides the message
C5_Witness ==
    \E r \in Validated :
        /\ outcome[r].kind = "response"
        /\ outcome[r].status = 404
        /\ Contains(Lower(outcome[r].text), <<"e","r","r","o","r">>)
        /\ Verdict(r).message = <<"HTTP error code: ", "4", "0", "4">>

(***************************************************************************)
(* Properties of get_citations.                                            *)
(***************************************************************************)
\* requests whose get_citations call was given a topic string and has finished
Listed == {r \in Req : arg[r].op = "citations" /\ pc[r] = "done"
                        /\ arg[r].topic # NoTopic}

Topic(r) == arg[r].topic[1]

Response(r) == ret[r].value

SeededKeys == <<Key_pcos, Key_endometriosis, Key_preeclampsia>>

IsSeededKey(k) == \E i \in DOMAIN SeededKeys : SeededKeys[i] = k

\* the response the specification gives for an unrecognised topic
UnknownTopicResponse(r) ==
    /\ Response(r).citations = <<>>
    /\ Response(r).count = 0
    /\ "message" \in DOMAIN Response(r)
    /\ Response(r).message =
          <<"No citations found for topic '">> \o Lower(Topic(r)) \o <<"'">>
    /\ "available_topics" \in DOMAIN Response(r)
    /\ Response(r).available_topics = SeededKeys

\* C7: every supplied topic string, the empty string included, whose
\* lowercased form is not a key of the topic index gets citations = [],
\* count = 0, a message naming the lowercased topic and available_topics
\* listing every key.
C7_UnknownTopic ==
    \A r \in Listed :
        ~IsSeededKey(Lower(Topic(r))) => UnknownTopicResponse(r)

\* C7, for the topic strings that are not empty (the part of the claim the
\* code satisfies)
C7_UnknownNonEmptyTopic ==
    \A r \in Listed :
        (Topic(r) # <<>> /\ ~IsSeededKey(Lower(Topic(r)))) =>
            UnknownTopicResponse(r)

\* an unknown topic in mixed case, answered with its lowercased form
C7_Witness ==
    \E r \in Listed :
        /\ Topic(r) = T_X \o T_cos
        /\ Response(r).topic = <<"x","c","o","s">>
        /\ UnknownTopicResponse(r)

\* C8: two supplied topic strings with the same lowercased form get identical
\* responses, the echoed topic, the citation list and the count included.
C8_CaseInsensitive ==
    \A r1 \in Listed, r2 \in Listed :
        Lower(Topic(r1)) = Lower(Topic(r2)) => Response(r1) = Response(r2)

\* "PCOS" and "pcos" answered alike, with the three records of the topic
C8_Witness ==
    /\ 1 \in Listed
    /\ 2 \in Listed
    /\ Topic(1) = T_P \o T_COS
    /\ Topic(2) = T_p \o T_cos
    /\ Response(1) = Response(2)
    /\ Response(1).topic = Key_pcos
    /\ Response(1).count = 3

(***************************************************************************)
(* Properties of the fetches and of concurrent requests.                   *)
(***************************************************************************)
\* the calls whose URL is in the approved set, in call order
RECURSIVE ApprovedCalls(_)
ApprovedCalls(cs) ==
    IF cs = <<>> THEN <<>>
    ELSE IF Head(cs) \in APPROVED
           THEN <<Head(cs)>> \o ApprovedCalls(Tail(cs))
           ELSE ApprovedCalls(Tail(cs))

\* C6, as stated: the number of fetcher invocations equals the number of
\* validate_citation calls made.
C6_OneFetchPerValidation ==
    Len(fetchLog) = Len(calls)

\* C6, amended: each validation of an approved URL invokes the fetcher exactly
\* once, for that URL, and a validation of any other URL never invokes it; no
\* result is reused, so the fetches are exactly the calls with an approved URL.
C6_OneFetchPerApprovedValidation ==
    fetchLog = ApprovedCalls(calls)

\* the same approved URL validated twice and fetched twice, and a URL outside
\* the approved set validated without a fetch
C6_Witness ==
    /\ Len(calls) = 3
    /\ calls[1] = calls[2]
    /\ calls[3] \notin APPROVED
    /\ fetchLog = <<calls[1], calls[2]>>

\* C9: a validation suspended in its fetch eventually completes with a
\* verdict, and when the remote server hangs that verdict is the rejection
\* whose message starts with "Fetch error: ".
C9_EventuallyVerdict ==
    \A r \in Req :
        (pc[r] = "fetching") ~>
            (/\ pc[r] = "done"
             /\ ret[r].kind = "return"
             /\ remote[r] = "hangs" =>
                   /\ ret[r].value.is_approved = FALSE
                   /\ ret[r].value.flag_for_audit = TRUE
                   /\ ret[r].value.message[1] = "Fetch error: ")

\* a validation of a hanging server resolved by the timeout
C9_Witness ==
    \E r \in Validated :
        /\ remote[r] = "hangs"
        /\ outcome[r] = [kind |-> "raise", exc |-> ReadTimeout]
        /\ Verdict(r).message = <<"Fetch error: ", ReadTimeout.text>>

\* the verdict of validate_citation run alone on a URL and a fetch result
VerdictAlone(url, o) ==
    IF url \notin APPROVED
      THEN Return(Rejection(<<"URL not in approved list">>))
      ELSE AfterFetch(url, o)

\* C10: under every interleaving each finished validation holds the verdict
\* that its own URL and its own fetch result give when run alone, and the
\* approved set and the topic index are as they were at start-up.
C10_Isolation ==
    /\ \A r \in Validated : ret[r] = VerdictAlone(Url(r), outcome[r])
    /\ \A r1 \in Validated, r2 \in Validated :
          (Url(r1) = Url(r2) /\ outcome[r1] = outcome[r2]) => ret[r1] = ret[r2]
    /\ approved = APPROVED
    /\ citations = CITATIONS

\* the whole bibliography is listed while a third validation is suspended in
\* its fetch of a URL that an earlier validation also fetched
C10_Witness ==
    /\ pc[1] = "fetching"
    /\ arg[2].op = "citations"
    /\ pc[2] = "done"
    /\ arg[2].topic = NoTopic
    /\ ret[2].value.count = 5
    /\ Len(calls) = 3
    /\ calls[1] = calls[3]
    /\ Len(fetchLog) = 2

====
